---- MODULE Spec2Model ----
(***************************************************************************)
(* Model of the elevate-romania pipeline: Extract, Filter, Enrich,         *)
(* Validate, Export, Upload, and the orchestrator (main.py) that runs the  *)
(* stages over JSON snapshot files.                                        *)
(*                                                                         *)
(* A Python dict is a TLA+ function whose domain is the set of its keys;   *)
(* a Python list is a sequence.  An optional value (x or None) is a        *)
(* sequence of length at most one: None is << >>, a present value v is     *)
(* <<v>>.  Elevations and coordinates are whole numbers.                   *)
(***************************************************************************)
EXTENDS Integers, Sequences, FiniteSets, TLC

VARIABLES
    files,      \* the working directory: file name -> optional content
    args,       \* the parsed command line of the running main()
    pc,         \* where main() stands
    trace,      \* what the running main() has done so far, in order
    exit_code,  \* the exit status of main(), once it has ended
    runs,       \* the number of main() runs started
    op,         \* component specifications: the method that was called
    arg,        \* its arguments, as the caller holds them after the call
    ret         \* what it returned

orch == <<files, args, pc, trace, exit_code, runs>>

comp == <<op, arg, ret>>

vars == <<files, args, pc, trace, exit_code, runs, op, arg, ret>>

(***************************************************************************)
(* Bounds                                                                  *)
(***************************************************************************)
MaxLen == 2         \* longest element list handed to a component

MaxRuns == 1        \* runs of main() in one behaviour

MaxCalls == 6       \* stage functions called one after another in one directory

(***************************************************************************)
(* Python helpers                                                          *)
(***************************************************************************)
None == << >>

Some(v) == <<v>>

\* dict.get(k): the value, or None when the key is absent
Get(d, k) == IF k \in DOMAIN d THEN Some(d[k]) ELSE None

SeqsUpTo(S, n) == UNION {[1..k -> S] : k \in 0..n}

Range(s) == {s[i] : i \in DOMAIN s}

(***************************************************************************)
(* Element model: the elements the components are exercised on.            *)
(***************************************************************************)
BaseElements ==
    { [type |-> "node", id |-> 1, lat |-> 45, lon |-> 25],
      [type |-> "node", id |-> 2, lat |-> 45],
      [type |-> "node", id |-> 3],
      [type |-> "way", id |-> 4, center |-> [lat |-> 46, lon |-> 24]],
      [type |-> "way", id |-> 5, center |-> [lat |-> 46]],
      [type |-> "way", id |-> 6],
      [type |-> "way", id |-> 7, lat |-> 46, lon |-> 24],
      [type |-> "relation", id |-> 8, lat |-> 47, lon |-> 23,
       center |-> [lat |-> 47, lon |-> 23]] }

TagSets ==
    { [railway |-> "station"],
      [tourism |-> "alpine_hut"],
      [tourism |-> "hotel"],
      [tourism |-> "alpine_hut", ele |-> "1500.0"],
      [railway |-> "station", ele |-> "100.0"] }

ElementPool == BaseElements \cup {b @@ [tags |-> t] : b \in BaseElements, t \in TagSets}

(***************************************************************************)
(* filter.py                                                               *)
(***************************************************************************)
\* mutant: looks for the key on the element instead of in its tags
has_elevation_TopLevel(element) == "ele" \in DOMAIN element

has_elevation(element) ==
    IF "tags" \in DOMAIN element
    THEN "ele" \in DOMAIN element.tags
    ELSE FALSE

\* mutant: any tourism tag counts as an alpine hut
is_alpine_hut_AnyTourism(element) ==
    IF "tags" \in DOMAIN element
    THEN "tourism" \in DOMAIN element.tags
    ELSE FALSE

is_alpine_hut(element) ==
    IF "tags" \in DOMAIN element
    THEN Get(element.tags, "tourism") = Some("alpine_hut")
    ELSE FALSE

\* the pair (lat, lon), each optional
get_coordinates(element) ==
    IF element.type = "node"
    THEN <<Get(element, "lat"), Get(element, "lon")>>
    ELSE IF element.type = "way" /\ "center" \in DOMAIN element
         THEN <<Get(element.center, "lat"), Get(element.center, "lon")>>
         ELSE <<None, None>>

RECURSIVE filter_loop(_, _, _)
filter_loop(elements, i, missing_ele) ==
    IF i > Len(elements)
    THEN missing_ele
    ELSE LET element == elements[i]
             coords  == get_coordinates(element)
         IN  filter_loop(elements, i + 1,
                 IF ~has_elevation(element) /\ coords[1] # None /\ coords[2] # None
                 THEN Append(missing_ele, element)
                 ELSE missing_ele)

filter_missing_elevation(elements) == filter_loop(elements, 1, << >>)

RECURSIVE prioritize_loop(_, _, _, _)
prioritize_loop(elements, i, alpine_huts, others) ==
    IF i > Len(elements)
    THEN <<alpine_huts, others>>
    ELSE IF is_alpine_hut(elements[i])
         THEN prioritize_loop(elements, i + 1, Append(alpine_huts, elements[i]), others)
         ELSE prioritize_loop(elements, i + 1, alpine_huts, Append(others, elements[i]))

prioritize_alpine_huts(elements) == prioritize_loop(elements, 1, << >>, << >>)

filter_data(data) ==
    LET train_stations ==
            IF "train_stations" \in DOMAIN data
            THEN filter_missing_elevation(data.train_stations)
            ELSE << >>
        split ==
            IF "accommodations" \in DOMAIN data
            THEN prioritize_alpine_huts(filter_missing_elevation(data.accommodations))
            ELSE <<(<< >>), (<< >>)>>
    IN  [train_stations |-> train_stations,
         alpine_huts |-> split[1],
         other_accommodations |-> split[2]]

(***************************************************************************)
(* enrich.py                                                               *)
(***************************************************************************)
\* What one HTTP request to the elevation provider does: it raises a
\* RequestException (unreachable, timeout, non-2xx), or yields a JSON body.
Elevations == {-5, 0, 3000}

Responses ==
    { [kind |-> "raise"],
      [kind |-> "json", body |-> [status |-> "INVALID_REQUEST"]],
      [kind |-> "json", body |-> [status |-> "OK", results |-> << >>]],
      [kind |-> "json", body |-> [status |-> "OK", results |-> <<[dataset |-> "srtm30m"]>>]] }
    \cup { [kind |-> "json", body |-> [status |-> "OK", results |-> <<[elevation |-> v]>>]]
           : v \in Elevations }
    \cup { [kind |-> "json", body |-> [results |-> <<[elevation |-> 0]>>]] }

\* str(round(elevation, 1)) of a whole-number float
EleStr(elevation) == ToString(elevation) \o ".0"

\* mutant: a failed request counts as elevation 0
get_elevation_ZeroOnError(api_type, response) ==
    IF response.kind = "raise"
    THEN Some(0)
    ELSE LET data == response.body
         IN  IF "results" \in DOMAIN data /\ data.results # << >>
             THEN Get(data.results[1], "elevation")
             ELSE Some(0)

\* the optional elevation
get_elevation(api_type, response) ==
    IF response.kind = "raise"
    THEN None
    ELSE LET data == response.body
         IN  IF api_type = "opentopo"
             THEN IF /\ Get(data, "status") = Some("OK")
                     /\ "results" \in DOMAIN data
                     /\ data.results # << >>
                  THEN Get(data.results[1], "elevation")
                  ELSE None
             ELSE IF "results" \in DOMAIN data /\ data.results # << >>
                  THEN Get(data.results[1], "elevation")
                  ELSE None

\* mutant: the fetched elevation is not kept on the element
WithElevation_TagsOnly(element, elevation) ==
    LET tags == IF "tags" \in DOMAIN element THEN element.tags ELSE << >>
        tags1 == [ele |-> EleStr(elevation)] @@ tags
        tags2 == ("ele:source" :> "SRTM") @@ tags1
    IN  [tags |-> tags2] @@ element

\* the element with the three elevation fields written into it
WithElevation(element, elevation) ==
    LET tags == IF "tags" \in DOMAIN element THEN element.tags ELSE << >>
        tags1 == [ele |-> EleStr(elevation)] @@ tags
        tags2 == ("ele:source" :> "SRTM") @@ tags1
    IN  [tags |-> tags2, elevation_fetched |-> elevation] @@ element

\* mutant: an element that is not a node falls back to its own lat/lon
resolve_coordinates_OwnLatLon(element) ==
    IF element.type = "way" /\ "center" \in DOMAIN element
    THEN Some(<<Get(element.center, "lat"), Get(element.center, "lon")>>)
    ELSE Some(<<Get(element, "lat"), Get(element, "lon")>>)

\* the coordinate lookup at the head of enrich_element: None where the code
\* returns at once, else the pair (lat, lon), each optional
resolve_coordinates(element) ==
    IF element.type = "node"
    THEN Some(<<Get(element, "lat"), Get(element, "lon")>>)
    ELSE IF element.type = "way" /\ "center" \in DOMAIN element
         THEN Some(<<Get(element.center, "lat"), Get(element.center, "lon")>>)
         ELSE None

\* mutant: the fields are written into a copy, the element given is left alone
enrich_element_OnCopy(api_type, element, response) ==
    LET coords == resolve_coordinates(element)
    IN  IF coords = None
        THEN [ret |-> None, element |-> element, log |-> << >>]
        ELSE IF coords[1][1] = None \/ coords[1][2] = None
        THEN [ret |-> None, element |-> element, log |-> << >>]
        ELSE LET lat == coords[1][1][1]
                 lon == coords[1][2][1]
                 elevation == get_elevation(api_type, response)
                 element1 == IF elevation # None
                             THEN WithElevation(element, elevation[1])
                             ELSE element
             IN  [ret |-> Some(element1),
                  element |-> element,
                  log |-> <<[call |-> "get_elevation", lat |-> lat, lon |-> lon],
                            [call |-> "sleep"]>>]

\* mutant: the delay is taken only after a lookup that succeeded
enrich_element_SleepOnSuccess(api_type, element, response) ==
    LET coords == resolve_coordinates(element)
    IN  IF coords = None
        THEN [ret |-> None, element |-> element, log |-> << >>]
        ELSE IF coords[1][1] = None \/ coords[1][2] = None
        THEN [ret |-> None, element |-> element, log |-> << >>]
        ELSE LET lat == coords[1][1][1]
                 lon == coords[1][2][1]
                 elevation == get_elevation(api_type, response)
                 element1 == IF elevation # None
                             THEN WithElevation(element, elevation[1])
                             ELSE element
             IN  [ret |-> Some(element1),
                  element |-> element1,
                  log |-> IF elevation # None
                          THEN <<[call |-> "get_elevation", lat |-> lat, lon |-> lon],
                                 [call |-> "sleep"]>>
                          ELSE <<[call |-> "get_elevation", lat |-> lat, lon |-> lon]>>]

\* ret: what is returned (an optional element); element: the caller's dict
\* after the call (it is written in place); log: the calls made.
enrich_element(api_type, element, response) ==
    LET coords == resolve_coordinates(element)
    IN  IF coords = None
        THEN [ret |-> None, element |-> element, log |-> << >>]
        ELSE IF coords[1][1] = None \/ coords[1][2] = None
        THEN [ret |-> None, element |-> element, log |-> << >>]
        ELSE LET lat == coords[1][1][1]
                 lon == coords[1][2][1]
                 elevation == get_elevation(api_type, response)
                 element1 == IF elevation # None
                             THEN WithElevation(element, elevation[1])
                             ELSE element
             IN  [ret |-> Some(element1),
                  element |-> element1,
                  log |-> <<[call |-> "get_elevation", lat |-> lat, lon |-> lon],
                            [call |-> "sleep"]>>]

\* the loop of enrich_elements from element i on; st carries the locals
\* (enriched, count), the caller's list, the log and the stopped flag
RECURSIVE enrich_loop(_, _, _, _, _)
enrich_loop(api_type, max_count, responses, i, st) ==
    IF i > Len(st.elements)
    THEN st
    ELSE IF max_count # None /\ max_count[1] # 0 /\ st.count >= max_count[1]
    THEN st
    ELSE LET r == enrich_element(api_type, st.elements[i], responses[i])
             taken == r.ret # None /\ DOMAIN r.ret[1] # {}
         IN  enrich_loop(api_type, max_count, responses, i + 1,
                 [enriched |-> IF taken THEN Append(st.enriched, r.ret[1]) ELSE st.enriched,
                  count    |-> IF taken THEN st.count + 1 ELSE st.count,
                  elements |-> [st.elements EXCEPT ![i] = r.element],
                  log      |-> st.log \o r.log])

\* responses[i] is what the provider does if element i is looked up
enrich_elements(api_type, elements, max_count, responses) ==
    enrich_loop(api_type, max_count, responses, 1,
        [enriched |-> << >>, count |-> 0, elements |-> elements, log |-> << >>])

(***************************************************************************)
(* validate.py                                                             *)
(***************************************************************************)
DefaultMinElevation == 0

DefaultMaxElevation == 2600

\* mutant: the lower bound itself is rejected
validate_element_ExclusiveMin(min_elevation, max_elevation, element) ==
    LET result == [valid |-> FALSE,
                   element_id |-> Get(element, "id"),
                   element_type |-> Get(element, "type"),
                   elevation |-> None,
                   errors |-> << >>]
    IN  IF "elevation_fetched" \notin DOMAIN element
        THEN [result EXCEPT !.errors = <<"No elevation data">>]
        ELSE LET elevation == element.elevation_fetched
                 result1 == [result EXCEPT !.elevation = Some(elevation)]
             IN  IF elevation <= min_elevation
                 THEN [result1 EXCEPT !.errors = Append(@,
                          "Elevation " \o ToString(elevation) \o "m below minimum "
                              \o ToString(min_elevation) \o "m")]
                 ELSE IF elevation > max_elevation
                 THEN [result1 EXCEPT !.errors = Append(@,
                          "Elevation " \o ToString(elevation) \o "m above maximum "
                              \o ToString(max_elevation) \o "m")]
                 ELSE [result1 EXCEPT !.valid = TRUE]

validate_element(min_elevation, max_elevation, element) ==
    LET result == [valid |-> FALSE,
                   element_id |-> Get(element, "id"),
                   element_type |-> Get(element, "type"),
                   elevation |-> None,
                   errors |-> << >>]
    IN  IF "elevation_fetched" \notin DOMAIN element
        THEN [result EXCEPT !.errors = <<"No elevation data">>]
        ELSE LET elevation == element.elevation_fetched
                 result1 == [result EXCEPT !.elevation = Some(elevation)]
             IN  IF elevation < min_elevation
                 THEN [result1 EXCEPT !.errors = Append(@,
                          "Elevation " \o ToString(elevation) \o "m below minimum "
                              \o ToString(min_elevation) \o "m")]
                 ELSE IF elevation > max_elevation
                 THEN [result1 EXCEPT !.errors = Append(@,
                          "Elevation " \o ToString(elevation) \o "m above maximum "
                              \o ToString(max_elevation) \o "m")]
                 ELSE [result1 EXCEPT !.valid = TRUE]

RECURSIVE validate_loop(_, _, _, _, _, _)
validate_loop(min_elevation, max_elevation, elements, i, valid, invalid) ==
    IF i > Len(elements)
    THEN [valid |-> valid, invalid |-> invalid]
    ELSE LET element == elements[i]
             validation == validate_element(min_elevation, max_elevation, element)
         IN  IF validation.valid
             THEN validate_loop(min_elevation, max_elevation, elements, i + 1,
                      Append(valid, element), invalid)
             ELSE validate_loop(min_elevation, max_elevation, elements, i + 1,
                      valid, Append(invalid, [element |-> element, validation |-> validation]))

\* mutant: the valid list is returned newest first
validate_elements_NewestFirst(min_elevation, max_elevation, elements) ==
    LET r == validate_loop(min_elevation, max_elevation, elements, 1, << >>, << >>)
    IN  [valid |-> [i \in 1..Len(r.valid) |-> r.valid[Len(r.valid) + 1 - i]],
         invalid |-> r.invalid]

validate_elements(min_elevation, max_elevation, elements) ==
    validate_loop(min_elevation, max_elevation, elements, 1, << >>, << >>)

\* a result for every category whose list is not empty
validate_all(min_elevation, max_elevation, data) ==
    [category \in {c \in DOMAIN data : data[c] # << >>} |->
        validate_elements(min_elevation, max_elevation, data[category])]

(***************************************************************************)
(* upload.py                                                               *)
(***************************************************************************)
\* Python truthiness of an optional string, of an optional number
Truthy(x) == x # None /\ x[1] # ""

TruthyNum(x) == x # None /\ x[1] # 0

\* The store call of one upload_element that raises, if any.
Faults == {"none", "get", "create", "update", "close"}

\* mutant: only the username is required
OSMUploader_UsernameOnly(username, password, dry_run) ==
    IF ~dry_run
    THEN IF ~Truthy(username)
         THEN [raises |-> Some("Username and password required for actual upload")]
         ELSE [raises |-> None, dry_run |-> dry_run, api |-> Some("OsmApi")]
    ELSE [raises |-> None, dry_run |-> dry_run, api |-> None]

\* OSMUploader.__init__: raises ValueError, or yields the uploader
OSMUploader(username, password, dry_run) ==
    IF ~dry_run
    THEN IF ~Truthy(username) \/ ~Truthy(password)
         THEN [raises |-> Some("Username and password required for actual upload")]
         ELSE [raises |-> None, dry_run |-> dry_run, api |-> Some("OsmApi")]
    ELSE [raises |-> None, dry_run |-> dry_run, api |-> None]

\* the store calls of the live branch, up to and including the one that raises
LiveCalls(element_type, element_id, fault) ==
    LET kind == IF element_type = "node" THEN "Node" ELSE "Way"
        all  == <<[store |-> kind \o "Get", id |-> element_id],
                  [store |-> "ChangesetCreate"],
                  [store |-> kind \o "Update", id |-> element_id],
                  [store |-> "ChangesetClose"]>>
    IN  CASE fault = "get"    -> SubSeq(all, 1, 1)
          [] fault = "create" -> SubSeq(all, 1, 2)
          [] fault = "update" -> SubSeq(all, 1, 3)
          [] OTHER            -> all

\* mutant: the ele:source tag is not required
upload_element_SourceOptional(uploader, element, fault) ==
    LET element_type == Get(element, "type")
        element_id   == Get(element, "id")
        tags         == IF "tags" \in DOMAIN element THEN element.tags ELSE << >>
    IN  IF ~TruthyNum(element_id) \/ ~Truthy(element_type)
        THEN [ret |-> <<FALSE, "Missing element ID or type">>, calls |-> << >>]
        ELSE IF "ele" \notin DOMAIN tags
        THEN [ret |-> <<FALSE, "Missing elevation data in tags">>, calls |-> << >>]
        ELSE IF uploader.dry_run
        THEN [ret |-> <<TRUE, "Dry-run successful">>, calls |-> << >>]
        ELSE IF element_type[1] \notin {"node", "way"}
        THEN [ret |-> <<FALSE, "Unsupported element type: " \o element_type[1]>>,
              calls |-> << >>]
        ELSE IF uploader.api = None
        THEN [ret |-> <<FALSE, "Error uploading: 'NoneType' object has no attribute">>,
              calls |-> << >>]
        ELSE IF fault = "none"
        THEN [ret |-> <<TRUE, "Upload successful">>,
              calls |-> LiveCalls(element_type[1], element_id[1], fault)]
        ELSE [ret |-> <<FALSE, "Error uploading: " \o fault>>,
              calls |-> LiveCalls(element_type[1], element_id[1], fault)]

\* mutant: a dry run fetches the current element from the store
upload_element_DryRunFetches(uploader, element, fault) ==
    LET element_type == Get(element, "type")
        element_id   == Get(element, "id")
        tags         == IF "tags" \in DOMAIN element THEN element.tags ELSE << >>
    IN  IF ~TruthyNum(element_id) \/ ~Truthy(element_type)
        THEN [ret |-> <<FALSE, "Missing element ID or type">>, calls |-> << >>]
        ELSE IF "ele" \notin DOMAIN tags \/ "ele:source" \notin DOMAIN tags
        THEN [ret |-> <<FALSE, "Missing elevation data in tags">>, calls |-> << >>]
        ELSE IF uploader.dry_run
        THEN [ret |-> <<TRUE, "Dry-run successful">>,
              calls |-> LiveCalls(element_type[1], element_id[1], "get")]
        ELSE IF element_type[1] \notin {"node", "way"}
        THEN [ret |-> <<FALSE, "Unsupported element type: " \o element_type[1]>>,
              calls |-> << >>]
        ELSE IF uploader.api = None
        THEN [ret |-> <<FALSE, "Error uploading: 'NoneType' object has no attribute">>,
              calls |-> << >>]
        ELSE IF fault = "none"
        THEN [ret |-> <<TRUE, "Upload successful">>,
              calls |-> LiveCalls(element_type[1], element_id[1], fault)]
        ELSE [ret |-> <<FALSE, "Error uploading: " \o fault>>,
              calls |-> LiveCalls(element_type[1], element_id[1], fault)]

\* ret: (success, message); calls: the store calls made
upload_element(uploader, element, fault) ==
    LET element_type == Get(element, "type")
        element_id   == Get(element, "id")
        tags         == IF "tags" \in DOMAIN element THEN element.tags ELSE << >>
    IN  IF ~TruthyNum(element_id) \/ ~Truthy(element_type)
        THEN [ret |-> <<FALSE, "Missing element ID or type">>, calls |-> << >>]
        ELSE IF "ele" \notin DOMAIN tags \/ "ele:source" \notin DOMAIN tags
        THEN [ret |-> <<FALSE, "Missing elevation data in tags">>, calls |-> << >>]
        ELSE IF uploader.dry_run
        THEN [ret |-> <<TRUE, "Dry-run successful">>, calls |-> << >>]
        ELSE IF element_type[1] \notin {"node", "way"}
        THEN [ret |-> <<FALSE, "Unsupported element type: " \o element_type[1]>>,
              calls |-> << >>]
        ELSE IF uploader.api = None
        THEN [ret |-> <<FALSE, "Error uploading: 'NoneType' object has no attribute">>,
              calls |-> << >>]
        ELSE IF fault = "none"
        THEN [ret |-> <<TRUE, "Upload successful">>,
              calls |-> LiveCalls(element_type[1], element_id[1], fault)]
        ELSE [ret |-> <<FALSE, "Error uploading: " \o fault>>,
              calls |-> LiveCalls(element_type[1], element_id[1], fault)]

RECURSIVE upload_loop(_, _, _, _, _)
upload_loop(uploader, elements, faults, i, st) ==
    IF i > Len(elements)
    THEN st
    ELSE LET r == upload_element(uploader, elements[i], faults[i])
         IN  upload_loop(uploader, elements, faults, i + 1,
                 IF r.ret[1]
                 THEN [st EXCEPT !.stats.successful = @ + 1,
                                 !.calls = @ \o r.calls,
                                 !.handed = Append(@, elements[i])]
                 ELSE [st EXCEPT !.stats.failed = @ + 1,
                                 !.stats.errors = Append(@,
                                     [element_id |-> Get(elements[i], "id"),
                                      error |-> r.ret[2]]),
                                 !.calls = @ \o r.calls,
                                 !.handed = Append(@, elements[i])])

\* mutant: the loop ends at the first element that fails
upload_elements_StopOnFailure(uploader, elements, faults) ==
    LET failing == {i \in DOMAIN elements :
                       ~upload_element(uploader, elements[i], faults[i]).ret[1]}
        last == IF failing = {} THEN Len(elements)
                ELSE CHOOSE i \in failing : \A j \in failing : i <= j
    IN  upload_loop(uploader, SubSeq(elements, 1, last), faults, 1,
            [stats |-> [total |-> Len(elements), successful |-> 0, failed |-> 0,
                        errors |-> << >>],
             calls |-> << >>, handed |-> << >>])

\* stats: the statistics dict; calls: the store calls made; handed: the
\* elements upload_element was called on
upload_elements(uploader, elements, faults) ==
    upload_loop(uploader, elements, faults, 1,
        [stats |-> [total |-> Len(elements), successful |-> 0, failed |-> 0,
                    errors |-> << >>],
         calls |-> << >>, handed |-> << >>])

\* The order in which the stages insert the categories into their dicts,
\* which is the order every later stage iterates them in.
CategoryOrder == <<"alpine_huts", "train_stations", "other_accommodations">>

\* the keys of a categorized dict, in that order
KeysInOrder(data) == SelectSeq(CategoryOrder, LAMBDA c : c \in DOMAIN data)

\* faults[category][i] is the fault met by element i of the category
upload_all(uploader, data, faults) ==
    LET uploaded == {c \in DOMAIN data : data[c] # << >>}
        per == [c \in uploaded |-> upload_elements(uploader, data[c], faults[c])]
        order == SelectSeq(CategoryOrder, LAMBDA c : c \in uploaded)
        CallsFrom[k \in 0..Len(order)] ==
            IF k = 0 THEN << >> ELSE CallsFrom[k - 1] \o per[order[k]].calls
        HandedFrom[k \in 0..Len(order)] ==
            IF k = 0 THEN << >> ELSE HandedFrom[k - 1] \o per[order[k]].handed
    IN  [all_stats |-> [c \in uploaded |-> per[c].stats],
         calls |-> CallsFrom[Len(order)],
         handed |-> HandedFrom[Len(order)]]

(***************************************************************************)
(* csv_export.py                                                           *)
(***************************************************************************)
\* dict.get(k, "")
GetOr(d, k, default) == IF k \in DOMAIN d THEN d[k] ELSE default

get_element_info(element) ==
    LET element_type == GetOr(element, "type", "")
        tags == GetOr(element, "tags", << >>)
        hasCenter == element_type = "way" /\ "center" \in DOMAIN element
    IN  [type |-> element_type,
         id |-> Get(element, "id"),
         name |-> GetOr(tags, "name", GetOr(tags, "ref", "")),
         lat |-> IF element_type = "node" THEN Get(element, "lat")
                 ELSE IF hasCenter THEN Get(element.center, "lat") ELSE None,
         lon |-> IF element_type = "node" THEN Get(element, "lon")
                 ELSE IF hasCenter THEN Get(element.center, "lon") ELSE None,
         elevation |-> GetOr(tags, "ele", ""),
         elevation_source |-> GetOr(tags, "ele:source", ""),
         tourism |-> GetOr(tags, "tourism", ""),
         railway |-> GetOr(tags, "railway", "")]

\* the rows written; data is a validated snapshot
export_to_csv(data) ==
    LET order == KeysInOrder(data)
        RowsOf(c) ==
            LET elements == IF "valid_elements" \in DOMAIN data[c]
                            THEN data[c].valid_elements ELSE << >>
            IN  [i \in DOMAIN elements |->
                    [category |-> c] @@ get_element_info(elements[i])]
        RowsFrom[k \in 0..Len(order)] ==
            IF k = 0 THEN << >> ELSE RowsFrom[k - 1] \o RowsOf(order[k])
    IN  RowsFrom[Len(order)]

(***************************************************************************)
(* extract.py                                                              *)
(***************************************************************************)
\* result: what _query_overpass returned, None after a request error
elements_of(result) ==
    IF result # None /\ "elements" \in DOMAIN result[1]
    THEN result[1].elements
    ELSE << >>

get_all_data(stations_result, accommodations_result) ==
    [train_stations |-> elements_of(stations_result),
     accommodations |-> elements_of(accommodations_result)]

(***************************************************************************)
(* main.py                                                                 *)
(***************************************************************************)
RawFile == "osm_data_raw.json"

FilteredFile == "osm_data_filtered.json"

EnrichedFile == "osm_data_enriched.json"

ValidatedFile == "osm_data_validated.json"

CsvFile == "elevation_data.csv"

FileNames == {RawFile, FilteredFile, EnrichedFile, ValidatedFile, CsvFile}

NotFound(file, flag) ==
    [print |-> "Error: " \o file \o " not found. Run " \o flag \o " first."]

\* the categories of a dict whose list is not empty, in iteration order
NonEmptyInOrder(data) ==
    SelectSeq(CategoryOrder, LAMBDA c : c \in DOMAIN data /\ data[c] # << >>)

RECURSIVE TotalLen(_, _)
TotalLen(data, order) ==
    IF order = << >> THEN 0 ELSE Len(data[Head(order)]) + TotalLen(data, Tail(order))

\* the part of the flat sequence that belongs to the k-th category of order
Slice(data, order, flat, k) ==
    LET off == TotalLen(data, SubSeq(order, 1, k - 1))
    IN  SubSeq(flat, off + 1, off + Len(data[order[k]]))

\* each run_* yields the files after the call and the events of the call
run_extract(fs, stations_result, accommodations_result) ==
    [files |-> [fs EXCEPT ![RawFile] =
                    Some(get_all_data(stations_result, accommodations_result))],
     events |-> << >>]

\* mutant: the new lists are appended to the ones already in the snapshot
run_filter_Merge(fs) ==
    IF fs[RawFile] = None
    THEN [files |-> fs, events |-> <<NotFound(RawFile, "--extract")>>]
    ELSE LET new == filter_data(fs[RawFile][1])
             old == IF fs[FilteredFile] = None THEN << >> ELSE fs[FilteredFile][1]
         IN  [files |-> [fs EXCEPT ![FilteredFile] =
                            Some([c \in DOMAIN new |->
                                     (IF c \in DOMAIN old THEN old[c] ELSE << >>) \o new[c]])],
              events |-> << >>]

run_filter(fs) ==
    IF fs[RawFile] = None
    THEN [files |-> fs, events |-> <<NotFound(RawFile, "--extract")>>]
    ELSE [files |-> [fs EXCEPT ![FilteredFile] = Some(filter_data(fs[RawFile][1]))],
          events |-> << >>]

\* responses: what the provider does on each lookup, one per element of the
\* non-empty categories in the order they are enriched
run_enrich(fs, max_items, responses) ==
    IF fs[FilteredFile] = None
    THEN [files |-> fs, events |-> <<NotFound(FilteredFile, "--filter")>>]
    ELSE LET data == fs[FilteredFile][1]
             order == NonEmptyInOrder(data)
             per == [k \in DOMAIN order |->
                        enrich_elements("opentopo", data[order[k]], max_items,
                                        Slice(data, order, responses, k))]
             enriched_data == [c \in Range(order) |->
                        per[CHOOSE k \in DOMAIN order : order[k] = c].enriched]
             LogFrom[k \in 0..Len(order)] ==
                 IF k = 0 THEN << >> ELSE LogFrom[k - 1] \o per[k].log
         IN  [files |-> [fs EXCEPT ![EnrichedFile] = Some(enriched_data)],
              events |-> LogFrom[Len(order)]]

\* mutant: every element of a category is stored under valid_elements
run_validate_KeepsInvalid(fs) ==
    IF fs[EnrichedFile] = None
    THEN [files |-> fs, events |-> <<NotFound(EnrichedFile, "--enrich")>>]
    ELSE LET results == validate_all(DefaultMinElevation, DefaultMaxElevation,
                                     fs[EnrichedFile][1])
             output == [category \in DOMAIN results |->
                           [valid_count |-> Len(results[category].valid),
                            invalid_count |-> Len(results[category].invalid),
                            valid_elements |-> fs[EnrichedFile][1][category]]]
         IN  [files |-> [fs EXCEPT ![ValidatedFile] = Some(output)],
              events |-> << >>]

run_validate(fs) ==
    IF fs[EnrichedFile] = None
    THEN [files |-> fs, events |-> <<NotFound(EnrichedFile, "--enrich")>>]
    ELSE LET results == validate_all(DefaultMinElevation, DefaultMaxElevation,
                                     fs[EnrichedFile][1])
             output == [category \in DOMAIN results |->
                           [valid_count |-> Len(results[category].valid),
                            invalid_count |-> Len(results[category].invalid),
                            valid_elements |-> results[category].valid]]
         IN  [files |-> [fs EXCEPT ![ValidatedFile] = Some(output)],
              events |-> << >>]

\* the CSV file is written only when there is a row
\* mutant: without a validated snapshot an empty CSV file is written
run_export_csv_EmptyOnMissing(fs) ==
    IF fs[ValidatedFile] = None
    THEN [files |-> [fs EXCEPT ![CsvFile] = Some(<< >>)],
          events |-> <<NotFound(ValidatedFile, "--validate")>>]
    ELSE LET rows == export_to_csv(fs[ValidatedFile][1])
         IN  [files |-> IF rows # << >> THEN [fs EXCEPT ![CsvFile] = Some(rows)] ELSE fs,
              events |-> << >>]

run_export_csv(fs) ==
    IF fs[ValidatedFile] = None
    THEN [files |-> fs, events |-> <<NotFound(ValidatedFile, "--validate")>>]
    ELSE LET rows == export_to_csv(fs[ValidatedFile][1])
         IN  [files |-> IF rows # << >> THEN [fs EXCEPT ![CsvFile] = Some(rows)] ELSE fs,
              events |-> << >>]

\* the valid elements handed to the uploader, by category
valid_data_of(data) ==
    [category \in {c \in DOMAIN data : "valid_elements" \in DOMAIN data[c]} |->
        data[category].valid_elements]

\* faults: the fault met by each uploaded element, in upload order;
\* raised: the exception that leaves run_upload, if any; handed: the
\* elements upload_element was called on
run_upload(fs, dry_run, username, password, faults) ==
    IF fs[ValidatedFile] = None
    THEN [files |-> fs, raised |-> None, handed |-> << >>,
          events |-> <<NotFound(ValidatedFile, "--validate")>>]
    ELSE LET valid_data == valid_data_of(fs[ValidatedFile][1])
             uploader == OSMUploader(username, password, dry_run)
             order == NonEmptyInOrder(valid_data)
             per_faults == [c \in Range(order) |->
                 Slice(valid_data, order, faults,
                       CHOOSE k \in DOMAIN order : order[k] = c)]
         IN  IF uploader.raises # None
             THEN [files |-> fs, raised |-> uploader.raises, handed |-> << >>,
                   events |-> << >>]
             ELSE LET r == upload_all(uploader, valid_data, per_faults)
                  IN  [files |-> fs, raised |-> None, handed |-> r.handed,
                       events |-> <<[uploader |-> IF dry_run THEN "DRY-RUN" ELSE "LIVE",
                                     elements |-> TotalLen(valid_data, order)]>>
                                  \o r.calls]

\* mutant: the flag is read the wrong way round
main_dry_run_Inverted(a) == ~a.dry_run

\* main.py line 299
main_dry_run(a) == IF a.dry_run THEN a.dry_run ELSE TRUE

StageOrder == <<"extract", "filter", "enrich", "validate", "export_csv", "upload">>

\* mutant: the enrich block stands before the filter block
next_pc_EnrichFirst(stage) ==
    CASE stage = "extract"    -> "enrich"
      [] stage = "enrich"     -> "filter"
      [] stage = "filter"     -> "validate"
      [] stage = "validate"   -> "export_csv"
      [] stage = "export_csv" -> "upload"
      [] OTHER                -> "complete"

\* the block of main() that follows the block of a stage
next_pc(stage) ==
    CASE stage = "extract"    -> "filter"
      [] stage = "filter"     -> "enrich"
      [] stage = "enrich"     -> "validate"
      [] stage = "validate"   -> "export_csv"
      [] stage = "export_csv" -> "upload"
      [] OTHER                -> "complete"

Requested(a, stage) == a.all \/ a[stage]

(***************************************************************************)
(* Spec: runs of main() in one working directory, which starts empty.      *)
(***************************************************************************)
Station == [type |-> "node", id |-> 1, lat |-> 45, lon |-> 25,
            tags |-> [railway |-> "station"]]

Hut == [type |-> "way", id |-> 4, center |-> [lat |-> 46, lon |-> 24],
        tags |-> [tourism |-> "alpine_hut"]]

HotelWithEle == [type |-> "node", id |-> 9, lat |-> 44, lon |-> 26,
                 tags |-> [tourism |-> "hotel", ele |-> "300.0"]]

\* what _query_overpass returns for the two queries
StationResults ==
    {None, Some([remark |-> "runtime error"]), Some([elements |-> <<Station>>])}

AccommodationResults == {None, Some([elements |-> <<HotelWithEle, Hut>>])}

Limits == {None, Some(0), Some(1)}

\* what the provider does on a lookup of the Enrich stage: the request
\* fails, or it answers with an elevation inside or outside the valid range
StageResponses ==
    { [kind |-> "raise"],
      [kind |-> "json", body |-> [status |-> "OK", results |-> <<[elevation |-> 0]>>]],
      [kind |-> "json", body |-> [status |-> "OK", results |-> <<[elevation |-> 3000]>>]] }

\* Command lines.  --all is given alone or not at all, and an option that
\* no requested stage reads is left out.
ArgsSet ==
    { a \in [extract : BOOLEAN, filter : BOOLEAN, enrich : BOOLEAN,
             validate : BOOLEAN, export_csv : BOOLEAN, upload : BOOLEAN,
             all : BOOLEAN, dry_run : BOOLEAN, limit : Limits,
             username : {None, Some("user")}, password : {None, Some("secret")}] :
        /\ a.all => \A k \in DOMAIN StageOrder : ~a[StageOrder[k]]
        /\ ~(a.all \/ a.enrich) => a.limit = None
        /\ ~(a.all \/ a.upload) =>
              ~a.dry_run /\ a.username = None /\ a.password = None }

OrchIdle ==
    /\ files = [f \in FileNames |-> None]
    /\ args = None
    /\ pc = "idle"
    /\ trace = << >>
    /\ exit_code = None
    /\ runs = 0

Init ==
    /\ OrchIdle
    /\ op = "none"
    /\ arg = None
    /\ ret = None

Called(name, r) == <<[call |-> name]>> \o r.events \o <<[return |-> name]>>

\* main() up to the first stage block
Main ==
    /\ pc = "idle"
    /\ runs < MaxRuns
    /\ runs' = runs + 1
    /\ \E a \in ArgsSet :
          /\ args' = a
          /\ IF \E k \in DOMAIN StageOrder : Requested(a, StageOrder[k])
             THEN pc' = "extract" /\ trace' = << >> /\ exit_code' = None
             ELSE /\ pc' = "exited"
                  /\ trace' = <<[print |-> "usage"]>>
                  /\ exit_code' = Some(0)
    /\ UNCHANGED <<files, comp>>

StepExtract ==
    /\ pc = "extract"
    /\ pc' = next_pc("extract")
    /\ IF Requested(args, "extract")
       THEN \E sr \in StationResults, ar \in AccommodationResults :
               LET r == run_extract(files, sr, ar)
               IN  files' = r.files /\ trace' = trace \o Called("run_extract", r)
       ELSE UNCHANGED <<files, trace>>
    /\ UNCHANGED <<args, exit_code, runs, comp>>

StepFilter ==
    /\ pc = "filter"
    /\ pc' = next_pc("filter")
    /\ IF Requested(args, "filter")
       THEN LET r == run_filter(files)
            IN  files' = r.files /\ trace' = trace \o Called("run_filter", r)
       ELSE UNCHANGED <<files, trace>>
    /\ UNCHANGED <<args, exit_code, runs, comp>>

\* the number of lookups the stage can make
LookupsOf(fs) ==
    IF fs[FilteredFile] = None
    THEN 0
    ELSE TotalLen(fs[FilteredFile][1], NonEmptyInOrder(fs[FilteredFile][1]))

StepEnrich ==
    /\ pc = "enrich"
    /\ pc' = next_pc("enrich")
    /\ IF Requested(args, "enrich")
       THEN \E responses \in [1..LookupsOf(files) -> StageResponses] :
               LET r == run_enrich(files, args.limit, responses)
               IN  files' = r.files /\ trace' = trace \o Called("run_enrich", r)
       ELSE UNCHANGED <<files, trace>>
    /\ UNCHANGED <<args, exit_code, runs, comp>>

StepValidate ==
    /\ pc = "validate"
    /\ pc' = next_pc("validate")
    /\ IF Requested(args, "validate")
       THEN LET r == run_validate(files)
            IN  files' = r.files /\ trace' = trace \o Called("run_validate", r)
       ELSE UNCHANGED <<files, trace>>
    /\ UNCHANGED <<args, exit_code, runs, comp>>

StepExportCsv ==
    /\ pc = "export_csv"
    /\ pc' = next_pc("export_csv")
    /\ IF Requested(args, "export_csv")
       THEN LET r == run_export_csv(files)
            IN  files' = r.files /\ trace' = trace \o Called("run_export_csv", r)
       ELSE UNCHANGED <<files, trace>>
    /\ UNCHANGED <<args, exit_code, runs, comp>>

\* the number of elements the stage hands to the uploader
UploadsOf(fs) ==
    IF fs[ValidatedFile] = None
    THEN 0
    ELSE LET valid_data == valid_data_of(fs[ValidatedFile][1])
         IN  TotalLen(valid_data, NonEmptyInOrder(valid_data))

StepUpload ==
    /\ pc = "upload"
    /\ IF Requested(args, "upload")
       THEN LET dry_run == main_dry_run(args)
            IN  IF ~dry_run /\ ~Truthy(args.username)
                THEN /\ trace' = Append(trace,
                            [print |-> "Error: Username and password required for actual upload"])
                     /\ pc' = "exited"
                     /\ exit_code' = Some(0)
                     /\ UNCHANGED files
                ELSE \E faults \in [1..UploadsOf(files) ->
                                       IF dry_run THEN {"none"} ELSE Faults] :
                        LET r == run_upload(files, dry_run, args.username,
                                            args.password, faults)
                        IN  /\ files' = r.files
                            /\ IF r.raised # None
                               THEN /\ trace' = trace \o <<[call |-> "run_upload"]>>
                                          \o r.events
                                          \o <<[print |-> "Error: " \o r.raised[1]]>>
                                    /\ pc' = "exited"
                                    /\ exit_code' = Some(1)
                               ELSE /\ trace' = trace \o Called("run_upload", r)
                                    /\ pc' = next_pc("upload")
                                    /\ UNCHANGED exit_code
       ELSE /\ pc' = next_pc("upload")
            /\ UNCHANGED <<files, trace, exit_code>>
    /\ UNCHANGED <<args, runs, comp>>

\* the closing banner of main()
Complete ==
    /\ pc = "complete"
    /\ pc' = "exited"
    /\ trace' = Append(trace, [print |-> "COMPLETED SUCCESSFULLY!"])
    /\ exit_code' = Some(0)
    /\ UNCHANGED <<files, args, runs, comp>>

\* the process is gone; the working directory stays
Exit ==
    /\ pc = "exited"
    /\ pc' = "idle"
    /\ args' = None
    /\ trace' = << >>
    /\ exit_code' = None
    /\ UNCHANGED <<files, runs, comp>>

Next ==
    \/ Main
    \/ StepExtract
    \/ StepFilter
    \/ StepEnrich
    \/ StepValidate
    \/ StepExportCsv
    \/ StepUpload
    \/ Complete
    \/ Exit

Spec == Init /\ [][Next]_vars

(***************************************************************************)
(* SpecFilter: the Category Filter called on bounded inputs.               *)
(***************************************************************************)
\* the raw snapshots that split a list into stations and accommodations,
\* with either key possibly absent
RawDataOf(elements) ==
    UNION { { [train_stations |-> SubSeq(elements, 1, k),
               accommodations |-> SubSeq(elements, k + 1, Len(elements))],
              [train_stations |-> SubSeq(elements, 1, k)],
              [accommodations |-> SubSeq(elements, k + 1, Len(elements))] }
            : k \in 0..Len(elements) }

InitFilter ==
    /\ OrchIdle
    /\ op = "none"
    /\ arg \in SeqsUpTo(ElementPool, MaxLen)
    /\ ret = None

CallFilterMissingElevation ==
    /\ op = "none"
    /\ op' = "filter_missing_elevation"
    /\ ret' = filter_missing_elevation(arg)
    /\ UNCHANGED <<arg, orch>>

CallPrioritizeAlpineHuts ==
    /\ op = "none"
    /\ op' = "prioritize_alpine_huts"
    /\ ret' = prioritize_alpine_huts(arg)
    /\ UNCHANGED <<arg, orch>>

CallFilterData ==
    /\ op = "none"
    /\ \E data \in RawDataOf(arg) :
          /\ op' = "filter_data"
          /\ arg' = data
          /\ ret' = filter_data(data)
    /\ UNCHANGED orch

NextFilter ==
    \/ CallFilterMissingElevation
    \/ CallPrioritizeAlpineHuts
    \/ CallFilterData

SpecFilter == InitFilter /\ [][NextFilter]_vars

(***************************************************************************)
(* C1                                                                      *)
(***************************************************************************)
IsCall(e) == "call" \in DOMAIN e /\ e.call \in {"run_" \o StageOrder[k] : k \in DOMAIN StageOrder}

IsPrint(e, text) == "print" \in DOMAIN e /\ e.print = text

\* a stage reported that its predecessor's snapshot is missing
IsNotFound(e) ==
    "print" \in DOMAIN e /\
    e \in { NotFound(RawFile, "--extract"), NotFound(FilteredFile, "--filter"),
            NotFound(EnrichedFile, "--enrich"), NotFound(ValidatedFile, "--validate") }

\* C1: once a stage of a run has found its predecessor's snapshot missing,
\* no later stage is executed in that run and the run does not report
\* successful completion.
C1_HaltsOnMissingSnapshot ==
    \A i \in DOMAIN trace :
        IsNotFound(trace[i]) =>
            \A j \in DOMAIN trace :
                j > i => ~IsCall(trace[j]) /\ ~IsPrint(trace[j], "COMPLETED SUCCESSFULLY!")

(***************************************************************************)
(* C2                                                                      *)
(***************************************************************************)
IsUploader(e, mode) == "uploader" \in DOMAIN e /\ e.uploader = mode

InTrace(P(_)) == \E i \in DOMAIN trace : P(trace[i])

C2_ConfigError(e) ==
    IsPrint(e, "Error: Username and password required for actual upload")

C2_DryRunUploader(e) == IsUploader(e, "DRY-RUN")

C2_UploadCalled(e) == "call" \in DOMAIN e /\ e.call = "run_upload"

\* C2: when the Upload stage is requested for a live upload (no --dry-run)
\* and the credentials are absent, the run reports the configuration error
\* and runs no upload; a live upload that was asked for is never run in
\* dry-run mode instead.
C2_RefusesInsteadOfDryRun ==
    (pc \in {"complete", "exited"} /\ Requested(args, "upload") /\ ~args.dry_run) =>
        /\ ~InTrace(C2_DryRunUploader)
        /\ (~Truthy(args.username) \/ ~Truthy(args.password)) =>
              InTrace(C2_ConfigError) /\ ~InTrace(C2_UploadCalled)

(***************************************************************************)
(* C3                                                                      *)
(***************************************************************************)
IsStore(e) == "store" \in DOMAIN e

\* C3: a store call happens in a run only if the run opted out of dry-run
\* and supplied the credentials; in every other run there is none.
C3_StoreCallsOnlyWhenLive ==
    InTrace(IsStore) =>
        ~args.dry_run /\ Truthy(args.username) /\ Truthy(args.password)

C3_UploaderWithElements(e) == "uploader" \in DOMAIN e /\ e.elements > 0

\* an upload over valid elements has ended in a run that asked for dry-run
\* and supplied credentials, with no store call
C3_Witness ==
    /\ pc = "complete"
    /\ Requested(args, "upload")
    /\ args.dry_run
    /\ Truthy(args.username)
    /\ Truthy(args.password)
    /\ InTrace(C3_UploaderWithElements)
    /\ ~InTrace(IsStore)

(***************************************************************************)
(* C4                                                                      *)
(***************************************************************************)
C4_Index(name) == CHOOSE k \in DOMAIN StageOrder : "run_" \o StageOrder[k] = name

C4_Calls == SelectSeq(trace, IsCall)

\* C4: the requested stages of a run execute one after another in the order
\* Extract, Filter, Enrich, Validate, Export, Upload: a stage starts only
\* after every requested earlier stage has finished, none runs twice, and
\* none runs unrequested.
C4_FixedOrder ==
    /\ \A i, j \in DOMAIN C4_Calls :
          i < j => C4_Index(C4_Calls[i].call) < C4_Index(C4_Calls[j].call)
    /\ \A i \in DOMAIN trace :
          IsCall(trace[i]) =>
              /\ Requested(args, StageOrder[C4_Index(trace[i].call)])
              /\ \A k \in DOMAIN StageOrder :
                    (k < C4_Index(trace[i].call) /\ Requested(args, StageOrder[k])) =>
                        \E j \in DOMAIN trace :
                            j < i /\ trace[j] = [return |-> "run_" \o StageOrder[k]]
    /\ pc = "complete" =>
          \A k \in DOMAIN StageOrder :
              Requested(args, StageOrder[k]) =>
                  Len(SelectSeq(trace,
                        LAMBDA e : e = [call |-> "run_" \o StageOrder[k]])) = 1

\* a run that asked for Filter, Validate and Upload only has run the three
C4_Witness ==
    /\ pc = "complete"
    /\ ~args.all /\ args.filter /\ args.validate /\ args.upload
    /\ ~args.extract /\ ~args.enrich /\ ~args.export_csv
    /\ Len(C4_Calls) = 3

(***************************************************************************)
(* C5                                                                      *)
(***************************************************************************)
C5_NoEle(e) == ~("tags" \in DOMAIN e /\ "ele" \in DOMAIN e.tags)

C5_Resolvable(e) ==
    \/ e.type = "node" /\ "lat" \in DOMAIN e /\ "lon" \in DOMAIN e
    \/ /\ e.type = "way"
       /\ "center" \in DOMAIN e
       /\ "lat" \in DOMAIN e.center
       /\ "lon" \in DOMAIN e.center

C5_Retained(e) == C5_NoEle(e) /\ C5_Resolvable(e)

\* C5: filterMissingElevation returns exactly the subsequence, in input
\* order, of the elements that have no tags.ele and a resolvable coordinate,
\* each unmodified.
C5_FilterExact ==
    op = "filter_missing_elevation" => ret = SelectSeq(arg, C5_Retained)

\* an input mixing a retained element, one with tags.ele and one without
\* a coordinate has been filtered down
C5_Witness ==
    /\ op = "filter_missing_elevation"
    /\ Len(arg) = 2
    /\ Len(ret) = 1
    /\ \E i \in DOMAIN arg : ~C5_NoEle(arg[i]) \/ ~C5_Resolvable(arg[i])

(***************************************************************************)
(* C6                                                                      *)
(***************************************************************************)
C6_IsHut(e) ==
    "tags" \in DOMAIN e /\ "tourism" \in DOMAIN e.tags /\ e.tags.tourism = "alpine_hut"

C6_NotHut(e) == ~C6_IsHut(e)

C6_Disjoint(s, t) == Range(s) \cap Range(t) = {}

C6_AccommodationsOf(data) ==
    IF "accommodations" \in DOMAIN data
    THEN SelectSeq(data.accommodations, C5_Retained)
    ELSE << >>

C6_StationsOf(data) ==
    IF "train_stations" \in DOMAIN data
    THEN SelectSeq(data.train_stations, C5_Retained)
    ELSE << >>

\* C6: prioritize is a stable partition by tags.tourism = "alpine_hut" (each
\* input element in exactly one output, same multiplicity, input order);
\* in filterAll alpine_huts and other_accommodations are disjoint and together
\* are the filtered accommodations, train_stations the filtered stations.
C6_StablePartition ==
    /\ op = "prioritize_alpine_huts" =>
          /\ ret[1] = SelectSeq(arg, C6_IsHut)
          /\ ret[2] = SelectSeq(arg, C6_NotHut)
          /\ Len(ret[1]) + Len(ret[2]) = Len(arg)
          /\ C6_Disjoint(ret[1], ret[2])
    /\ op = "filter_data" =>
          /\ ret.alpine_huts = SelectSeq(C6_AccommodationsOf(arg), C6_IsHut)
          /\ ret.other_accommodations = SelectSeq(C6_AccommodationsOf(arg), C6_NotHut)
          /\ C6_Disjoint(ret.alpine_huts, ret.other_accommodations)
          /\ ret.train_stations = C6_StationsOf(arg)

\* a hut and a non-hut accommodation were split, beside a filtered station
C6_Witness ==
    /\ op = "filter_data"
    /\ "train_stations" \in DOMAIN arg
    /\ "accommodations" \in DOMAIN arg
    /\ Len(arg.accommodations) = 2
    /\ Len(ret.alpine_huts) = 1
    /\ Len(ret.other_accommodations) = 1

(***************************************************************************)
(* SpecEnrich: the Elevation Enricher called on bounded inputs.            *)
(***************************************************************************)
EnrichPool ==
    { [type |-> "node", id |-> 1, lat |-> 45, lon |-> 25],
      [type |-> "node", id |-> 2, lat |-> 45, tags |-> [railway |-> "station"]],
      [type |-> "way", id |-> 4, center |-> [lat |-> 46, lon |-> 24],
       tags |-> [tourism |-> "alpine_hut"]],
      [type |-> "way", id |-> 5, center |-> [lon |-> 24]],
      [type |-> "way", id |-> 6, tags |-> [tourism |-> "hotel"]],
      [type |-> "relation", id |-> 8, lat |-> 47, lon |-> 23] }

ApiTypes == {"opentopo", "open-elevation"}

MaxCounts == {None} \cup {Some(n) : n \in 0..(MaxLen + 1)}

InitEnrich ==
    /\ OrchIdle
    /\ op = "none"
    /\ arg \in [api_type : ApiTypes,
                elements : SeqsUpTo(EnrichPool, MaxLen),
                max_count : MaxCounts]
    /\ ret = None

\* enrich_element on the first element of the list
CallEnrichElement ==
    /\ op = "none"
    /\ arg.elements # << >>
    /\ arg.max_count = None
    /\ \E response \in Responses :
          LET r == enrich_element(arg.api_type, arg.elements[1], response)
          IN  /\ op' = "enrich_element"
              /\ arg' = [api_type |-> arg.api_type, element |-> arg.elements[1],
                         after |-> r.element, response |-> response]
              /\ ret' = r
    /\ UNCHANGED orch

CallEnrichElements ==
    /\ op = "none"
    /\ \E responses \in [1..Len(arg.elements) -> Responses] :
          LET r == enrich_elements(arg.api_type, arg.elements, arg.max_count, responses)
          IN  /\ op' = "enrich_elements"
              /\ arg' = [api_type |-> arg.api_type, elements |-> arg.elements,
                         after |-> r.elements, max_count |-> arg.max_count,
                         responses |-> responses]
              /\ ret' = r
    /\ UNCHANGED orch

NextEnrich ==
    \/ CallEnrichElement
    \/ CallEnrichElements

SpecEnrich == InitEnrich /\ [][NextEnrich]_vars

(***************************************************************************)
(* C7                                                                      *)
(***************************************************************************)
LookupCalls(log) == SelectSeq(log, LAMBDA c : c.call = "get_elevation")

\* C7: enrichOne on an element for which no coordinate resolves returns none
\* without a lookup call, and no such element is in the output of enrichMany.
C7_NoCoordinateNoLookup ==
    /\ (op = "enrich_element" /\ ~C5_Resolvable(arg.element)) =>
          /\ ret.ret = None
          /\ LookupCalls(ret.log) = << >>
    /\ op = "enrich_elements" =>
          /\ \A i \in DOMAIN ret.enriched : C5_Resolvable(ret.enriched[i])
          /\ Len(LookupCalls(ret.log)) = Len(ret.enriched)

\* a list with a coordinate-less element was enriched, and another element
\* of the list made it to the output
C7_Witness ==
    /\ op = "enrich_elements"
    /\ \E i \in DOMAIN arg.elements : ~C5_Resolvable(arg.elements[i])
    /\ ret.enriched # << >>

(***************************************************************************)
(* C8                                                                      *)
(***************************************************************************)
\* the lookup fails: the request raises, or the body reports no elevation
C8_LookupFails(api_type, response) ==
    \/ response.kind = "raise"
    \/ /\ response.kind = "json"
       /\ \/ api_type = "opentopo" /\ "status" \notin DOMAIN response.body
          \/ api_type = "opentopo" /\ response.body.status # "OK"
          \/ "results" \notin DOMAIN response.body
          \/ response.body.results = << >>
          \/ "elevation" \notin DOMAIN response.body.results[1]

C8_ResolvableIndices(elements) == {i \in DOMAIN elements : C5_Resolvable(elements[i])}

\* the number of resolvable elements among the first i
C8_Rank(elements, i) == Cardinality({j \in C8_ResolvableIndices(elements) : j <= i})

\* C8: when the lookup for an element with a resolvable coordinate fails,
\* enrichOne makes exactly one lookup call and returns the element with no
\* elevation field added; enrichMany (no limit) keeps that element in its
\* output and looks up every other resolvable element exactly once.
C8_FailureIsNotFatal ==
    /\ (/\ op = "enrich_element"
        /\ C5_Resolvable(arg.element)
        /\ C8_LookupFails(arg.api_type, arg.response)) =>
          /\ ret.ret = Some(arg.element)
          /\ arg.after = arg.element
          /\ Len(LookupCalls(ret.log)) = 1
    /\ (op = "enrich_elements" /\ arg.max_count = None) =>
          /\ Len(ret.enriched) = Cardinality(C8_ResolvableIndices(arg.elements))
          /\ Len(LookupCalls(ret.log)) = Len(ret.enriched)
          /\ \A i \in C8_ResolvableIndices(arg.elements) :
                C8_LookupFails(arg.api_type, arg.responses[i]) =>
                    ret.enriched[C8_Rank(arg.elements, i)] = arg.elements[i]

\* the first of two resolvable elements failed its lookup, the second was
\* still enriched
C8_Witness ==
    /\ op = "enrich_elements"
    /\ arg.max_count = None
    /\ Len(arg.elements) = 2
    /\ Len(ret.enriched) = 2
    /\ C8_LookupFails(arg.api_type, arg.responses[1])
    /\ "elevation_fetched" \in DOMAIN ret.enriched[2]

(***************************************************************************)
(* C9                                                                      *)
(***************************************************************************)
Min(a, b) == IF a <= b THEN a ELSE b

\* C9: with max_count = n given, the output of enrichMany has exactly
\* min(n, number of inputs) elements, the first min(n, number of inputs)
\* inputs in order, for every n including 0.  Stated for the lists the
\* Filter stage hands on, in which every element resolves a coordinate.
C9_LimitExact ==
    (/\ op = "enrich_elements"
     /\ arg.max_count # None
     /\ \A i \in DOMAIN arg.elements : C5_Resolvable(arg.elements[i])) =>
        LET n == Min(arg.max_count[1], Len(arg.elements))
        IN  /\ Len(ret.enriched) = n
            /\ ret.enriched = SubSeq(arg.after, 1, n)

(***************************************************************************)
(* SpecValidate: the Range Validator called on bounded inputs.             *)
(***************************************************************************)
\* plausibility bands [min, max]: the default and two narrower ones
Bands == { <<DefaultMinElevation, DefaultMaxElevation>>, <<100, 200>>, <<150, 150>> }

FetchedElevations == {-1, 0, 1, 99, 100, 101, 150, 199, 200, 201, 2599, 2600, 2601}

ValidateBase ==
    { [type |-> "node", id |-> 1, lat |-> 45, lon |-> 25, tags |-> [railway |-> "station"]],
      [type |-> "way", id |-> 4, center |-> [lat |-> 46, lon |-> 24]] }

ValidatePool ==
    ValidateBase \cup {WithElevation(b, v) : b \in ValidateBase, v \in FetchedElevations}

InitValidate ==
    /\ OrchIdle
    /\ op = "none"
    /\ arg \in [band : Bands, elements : SeqsUpTo(ValidatePool, MaxLen)]
    /\ ret = None

\* validate_element on the first element of the list
CallValidateElement ==
    /\ op = "none"
    /\ arg.elements # << >>
    /\ op' = "validate_element"
    /\ arg' = [band |-> arg.band, element |-> arg.elements[1]]
    /\ ret' = validate_element(arg.band[1], arg.band[2], arg.elements[1])
    /\ UNCHANGED orch

CallValidateElements ==
    /\ op = "none"
    /\ op' = "validate_elements"
    /\ ret' = validate_elements(arg.band[1], arg.band[2], arg.elements)
    /\ UNCHANGED <<arg, orch>>

\* validate_all on the list split into two categories
CallValidateAll ==
    /\ op = "none"
    /\ \E k \in 0..Len(arg.elements) :
          LET data == [alpine_huts |-> SubSeq(arg.elements, 1, k),
                       train_stations |-> SubSeq(arg.elements, k + 1, Len(arg.elements))]
          IN  /\ arg' = [band |-> arg.band, data |-> data]
              /\ ret' = validate_all(arg.band[1], arg.band[2], data)
    /\ op' = "validate_all"
    /\ UNCHANGED orch

\* validate_all once more, on the valid elements of each category of the
\* previous result (the dict main.py builds as valid_data)
CallValidateAllAgain ==
    /\ op = "validate_all"
    /\ op' = "validate_all_again"
    /\ arg' = [band |-> arg.band, data |-> arg.data, first |-> ret]
    /\ ret' = validate_all(arg.band[1], arg.band[2],
                  [c \in DOMAIN ret |-> ret[c].valid])
    /\ UNCHANGED orch

NextValidate ==
    \/ CallValidateElement
    \/ CallValidateElements
    \/ CallValidateAll
    \/ CallValidateAllAgain

SpecValidate == InitValidate /\ [][NextValidate]_vars

(***************************************************************************)
(* C10                                                                     *)
(***************************************************************************)
C10_Below(v, min) ==
    "Elevation " \o ToString(v) \o "m below minimum " \o ToString(min) \o "m"

C10_Above(v, max) ==
    "Elevation " \o ToString(v) \o "m above maximum " \o ToString(max) \o "m"

\* C10: validateOne is invalid with the single reason "No elevation data"
\* when fetched_elevation is absent, with the single below-minimum reason
\* when it is < min, with the single above-maximum reason when it is > max,
\* and valid with no reason otherwise (min and max themselves are valid);
\* never valid with a reason, never more than one reason.
C10_ValidateOne ==
    op = "validate_element" =>
        LET e   == arg.element
            min == arg.band[1]
            max == arg.band[2]
        IN  /\ "elevation_fetched" \notin DOMAIN e =>
                  ~ret.valid /\ ret.errors = <<"No elevation data">>
            /\ "elevation_fetched" \in DOMAIN e =>
                  LET v == e.elevation_fetched
                  IN  /\ v < min => ~ret.valid /\ ret.errors = <<C10_Below(v, min)>>
                      /\ v > max => ~ret.valid /\ ret.errors = <<C10_Above(v, max)>>
                      /\ (min <= v /\ v <= max) => ret.valid /\ ret.errors = << >>
            /\ ret.valid => ret.errors = << >>
            /\ Len(ret.errors) <= 1

\* an element whose fetched elevation equals the minimum was found valid
C10_Witness ==
    /\ op = "validate_element"
    /\ "elevation_fetched" \in DOMAIN arg.element
    /\ arg.element.elevation_fetched = arg.band[1]
    /\ arg.band[1] < arg.band[2]
    /\ ret.valid

(***************************************************************************)
(* C11                                                                     *)
(***************************************************************************)
C11_IsValid(e) == validate_element(arg.band[1], arg.band[2], e).valid

C11_IsInvalid(e) == ~C11_IsValid(e)

C11_ElementsOf(invalid) == [i \in 1..Len(invalid) |-> invalid[i].element]

\* C11: validateAll run again on the valid elements of each category of its
\* own result classifies every one of them valid again, in the same order,
\* with an empty invalid list; and the elements validateMany returns, valid
\* and invalid, are the input elements unchanged and in input order.
C11_ValidateIdempotent ==
    /\ op = "validate_all_again" =>
          \A c \in DOMAIN arg.first :
              /\ arg.first[c].valid = SelectSeq(arg.data[c], C11_IsValid)
              /\ C11_ElementsOf(arg.first[c].invalid) = SelectSeq(arg.data[c], C11_IsInvalid)
              /\ IF arg.first[c].valid = << >>
                 THEN c \notin DOMAIN ret
                 ELSE /\ c \in DOMAIN ret
                      /\ ret[c].valid = arg.first[c].valid
                      /\ ret[c].invalid = << >>

\* a category with two different valid elements was validated twice
C11_Witness ==
    /\ op = "validate_all_again"
    /\ \E c \in DOMAIN ret :
          /\ Len(ret[c].valid) >= 2
          /\ ret[c].valid[1] # ret[c].valid[2]
          /\ ret[c].valid = arg.first[c].valid

(***************************************************************************)
(* SpecUpload: the Uploader constructed and called on bounded inputs.      *)
(***************************************************************************)
\* elements as the Validate stage hands them over, and elements that lack
\* the id, the type, tags.ele or tags.ele:source
UploadPool ==
    { WithElevation([type |-> "node", id |-> 1, lat |-> 45, lon |-> 25], 450),
      WithElevation([type |-> "way", id |-> 4, center |-> [lat |-> 46, lon |-> 24]], 1500),
      WithElevation([type |-> "relation", id |-> 8, lat |-> 47, lon |-> 23], 450),
      WithElevation([type |-> "node", lat |-> 45, lon |-> 25], 450),
      WithElevation([id |-> 3, lat |-> 45, lon |-> 25], 450),
      [type |-> "node", id |-> 2, tags |-> [ele |-> "100.0"]],
      [type |-> "way", id |-> 5, tags |-> ("ele:source" :> "SRTM")] }

Usernames == {None, Some(""), Some("user")}

Passwords == {None, Some("secret")}

InitUpload ==
    /\ OrchIdle
    /\ op = "none"
    /\ arg \in [username : Usernames, password : Passwords, dry_run : BOOLEAN,
                elements : SeqsUpTo(UploadPool, MaxLen)]
    /\ ret = None

\* OSMUploader(username, password, dry_run)
Construct ==
    /\ op = "none"
    /\ op' = "OSMUploader"
    /\ ret' = OSMUploader(arg.username, arg.password, arg.dry_run)
    /\ arg' = [uploader |-> ret', elements |-> arg.elements, prev |-> op,
               store_calls |-> 0, username |-> arg.username,
               password |-> arg.password, dry_run |-> arg.dry_run]
    /\ UNCHANGED orch

\* A method can be called once the constructor has returned an uploader.
\* The uploader holds nothing but dry_run and api, which no method assigns:
\* a dry-run uploader is called any number of times, a live one once.
\* arg.prev is the call before this one, arg.store_calls the number of
\* store calls made through the uploader so far.
Callable ==
    /\ op # "none"
    /\ arg.uploader.raises = None
    /\ op = "OSMUploader" \/ arg.uploader.dry_run

\* the store call that raises, for each of n elements; a dry-run uploader
\* has no store client
FaultsFor(uploader, n) ==
    IF uploader.dry_run THEN {[i \in 1..n |-> "none"]} ELSE [1..n -> Faults]

\* upload_element on the first element of the list
CallUploadElement ==
    /\ Callable
    /\ arg.elements # << >>
    /\ \E faults \in FaultsFor(arg.uploader, 1) :
          /\ ret' = upload_element(arg.uploader, arg.elements[1], faults[1])
          /\ arg' = [uploader |-> arg.uploader, elements |-> arg.elements,
                     prev |-> op, store_calls |-> arg.store_calls + Len(ret'.calls),
                     element |-> arg.elements[1], fault |-> faults[1]]
    /\ op' = "upload_element"
    /\ UNCHANGED orch

CallUploadElements ==
    /\ Callable
    /\ \E faults \in FaultsFor(arg.uploader, Len(arg.elements)) :
          /\ ret' = upload_elements(arg.uploader, arg.elements, faults)
          /\ arg' = [uploader |-> arg.uploader, elements |-> arg.elements,
                     prev |-> op, store_calls |-> arg.store_calls + Len(ret'.calls),
                     faults |-> faults]
    /\ op' = "upload_elements"
    /\ UNCHANGED orch

\* upload_all on the list split into two categories
CallUploadAll ==
    /\ Callable
    /\ \E k \in 0..Len(arg.elements) :
       \E fs \in FaultsFor(arg.uploader, Len(arg.elements)) :
          LET n == Len(arg.elements)
              data == [alpine_huts |-> SubSeq(arg.elements, 1, k),
                       train_stations |-> SubSeq(arg.elements, k + 1, n)]
              faults == [alpine_huts |-> SubSeq(fs, 1, k),
                         train_stations |-> SubSeq(fs, k + 1, n)]
          IN  /\ ret' = upload_all(arg.uploader, data, faults)
              /\ arg' = [uploader |-> arg.uploader, elements |-> arg.elements,
                         prev |-> op, store_calls |-> arg.store_calls + Len(ret'.calls),
                         data |-> data, faults |-> faults]
    /\ op' = "upload_all"
    /\ UNCHANGED orch

NextUpload ==
    \/ Construct
    \/ CallUploadElement
    \/ CallUploadElements
    \/ CallUploadAll

SpecUpload == InitUpload /\ [][NextUpload]_vars

(***************************************************************************)
(* C12                                                                     *)
(***************************************************************************)
C12_Complete(e) ==
    /\ "id" \in DOMAIN e
    /\ "type" \in DOMAIN e
    /\ "tags" \in DOMAIN e
    /\ "ele" \in DOMAIN e.tags
    /\ "ele:source" \in DOMAIN e.tags

\* C12: in DryRun and in Live mode, uploadOne on an element that lacks id,
\* kind, tags.ele or tags.ele:source returns a failure result and makes no
\* store call (fetch, open change-group, update, close) for it.
C12_IncompleteFailsWithoutStore ==
    (op = "upload_element" /\ ~C12_Complete(arg.element)) =>
        /\ ret.ret[1] = FALSE
        /\ ret.calls = << >>
        /\ arg.store_calls = 0

\* a live uploader was given an element whose tags carry ele but not
\* ele:source, and refused it
C12_Witness ==
    /\ op = "upload_element"
    /\ ~arg.uploader.dry_run
    /\ "tags" \in DOMAIN arg.element
    /\ "ele" \in DOMAIN arg.element.tags
    /\ "ele:source" \notin DOMAIN arg.element.tags
    /\ ret.ret = <<FALSE, "Missing elevation data in tags">>

(***************************************************************************)
(* C13                                                                     *)
(***************************************************************************)
C13_Calls == {"upload_element", "upload_elements", "upload_all"}

\* C13: in DryRun mode uploadOne on an element carrying id, kind, tags.ele
\* and tags.ele:source returns success with the dry-run message, and after
\* any sequence of uploadOne, uploadMany and uploadAll calls on a DryRun
\* uploader no store call has been made.
C13_DryRunNeverStores ==
    (op \in C13_Calls /\ arg.uploader.dry_run) =>
        /\ ret.calls = << >>
        /\ arg.store_calls = 0
        /\ (op = "upload_element" /\ C12_Complete(arg.element)) =>
               ret.ret = <<TRUE, "Dry-run successful">>

\* a dry-run uploader that had already served uploadMany accepted a
\* complete element in uploadOne
C13_Witness ==
    /\ op = "upload_element"
    /\ arg.prev = "upload_elements"
    /\ arg.uploader.dry_run
    /\ C12_Complete(arg.element)
    /\ ret.ret[1]

(***************************************************************************)
(* C14                                                                     *)
(***************************************************************************)
\* the result of uploadOne on element i of the uploadMany call
C14_One(i) == upload_element(arg.uploader, arg.elements[i], arg.faults[i])

C14_Failed == {i \in DOMAIN arg.elements : ~C14_One(i).ret[1]}

\* the store calls of elements 1..k, element by element
C14_CallsUpTo(k) ==
    LET F[j \in 0..k] == IF j = 0 THEN << >> ELSE F[j - 1] \o C14_One(j).calls
    IN  F[k]

\* the errors entries of the failed elements among 1..k, in input order
C14_ErrorsUpTo(k) ==
    LET F[j \in 0..k] ==
            IF j = 0 THEN << >>
            ELSE IF j \in C14_Failed
            THEN Append(F[j - 1], [element_id |-> Get(arg.elements[j], "id"),
                                   error |-> C14_One(j).ret[2]])
            ELSE F[j - 1]
    IN  F[k]

\* C14: in Live mode a store call that raises during uploadOne yields a
\* failure result (an "Error uploading" message), not an exception;
\* uploadMany calls uploadOne once for every element, in input order,
\* whatever failed before, and its stats satisfy total = number of
\* elements = successful + failed with one errors entry per failed element.
C14_FailuresAreCounted ==
    /\ (op = "upload_element" /\ ~arg.uploader.dry_run /\ ret.calls # << >>) =>
           ret.ret[1] = (arg.fault = "none")
    /\ (op = "upload_elements" /\ ~arg.uploader.dry_run) =>
           LET n == Len(arg.elements)
           IN  /\ ret.calls = C14_CallsUpTo(n)
               /\ ret.stats.total = n
               /\ ret.stats.total = ret.stats.successful + ret.stats.failed
               /\ ret.stats.failed = Cardinality(C14_Failed)
               /\ ret.stats.errors = C14_ErrorsUpTo(n)
               /\ Len(ret.stats.errors) = ret.stats.failed

\* the store raised on the first element, and the second element was
\* still uploaded
C14_Witness ==
    /\ op = "upload_elements"
    /\ ~arg.uploader.dry_run
    /\ Len(arg.elements) = 2
    /\ arg.faults[1] = "create"
    /\ C12_Complete(arg.elements[1])
    /\ ret.stats.failed = 1
    /\ ret.stats.successful = 1
    /\ ret.stats.errors[1].error = "Error uploading: create"

(***************************************************************************)
(* C15                                                                     *)
(***************************************************************************)
\* C15: constructing the uploader in Live mode without a username or
\* without a password raises the configuration error and creates no store
\* client, and no method of it is ever called; with both it yields a live
\* uploader; in DryRun mode construction never raises.
C15_LiveNeedsCredentials ==
    /\ op = "OSMUploader" =>
         /\ (~arg.dry_run /\ (arg.username \in {None, Some("")}
                              \/ arg.password \in {None, Some("")})) =>
               /\ ret.raises = Some("Username and password required for actual upload")
               /\ "api" \notin DOMAIN ret
         /\ (~arg.dry_run /\ arg.username \notin {None, Some("")}
                          /\ arg.password \notin {None, Some("")}) =>
               /\ ret.raises = None
               /\ ret.api # None
         /\ arg.dry_run => ret.raises = None /\ ret.api = None
    /\ op \in C13_Calls => arg.uploader.raises = None

\* a live uploader was constructed with a username but no password
C15_Witness ==
    /\ op = "OSMUploader"
    /\ ~arg.dry_run
    /\ arg.username = Some("user")
    /\ arg.password = None
    /\ ret.raises # None

(***************************************************************************)
(* SpecStages: the stage functions of main.py called one at a time, in any *)
(* order, in one working directory, which starts empty.  runs counts the   *)
(* calls.  arg remembers, for the Filter and the Validate stage, the       *)
(* predecessor snapshot its last run read and the snapshot it wrote, and   *)
(* whether the run before it had read the same predecessor snapshot.       *)
(***************************************************************************)
InitStages ==
    /\ OrchIdle
    /\ op = "none"
    /\ arg = [filter |-> None, validate |-> None]
    /\ ret = None

Remember(last, input, output) ==
    Some([input |-> input, output |-> output,
          again |-> last # None /\ last[1].input = input])

CallRunExtract ==
    /\ runs < MaxCalls
    /\ runs' = runs + 1
    /\ op' = "run_extract"
    /\ \E sr \in StationResults, ar \in AccommodationResults :
          LET r == run_extract(files, sr, ar)
          IN  files' = r.files /\ ret' = r.events
    /\ UNCHANGED <<args, pc, trace, exit_code, arg>>

CallRunFilter ==
    /\ runs < MaxCalls
    /\ runs' = runs + 1
    /\ op' = "run_filter"
    /\ LET r == run_filter(files)
       IN  /\ files' = r.files
           /\ ret' = r.events
           /\ arg' = IF files[RawFile] = None THEN arg
                     ELSE [arg EXCEPT !.filter =
                              Remember(@, files[RawFile], r.files[FilteredFile])]
    /\ UNCHANGED <<args, pc, trace, exit_code>>

\* a lookup may also answer with an elevation below the valid range
BelowSeaLevel ==
    [kind |-> "json", body |-> [status |-> "OK", results |-> <<[elevation |-> -5]>>]]

CallRunEnrich ==
    /\ runs < MaxCalls
    /\ runs' = runs + 1
    /\ op' = "run_enrich"
    /\ \E responses \in [1..LookupsOf(files) -> StageResponses \cup {BelowSeaLevel}] :
          LET r == run_enrich(files, None, responses)
          IN  files' = r.files /\ ret' = r.events
    /\ UNCHANGED <<args, pc, trace, exit_code, arg>>

CallRunValidate ==
    /\ runs < MaxCalls
    /\ runs' = runs + 1
    /\ op' = "run_validate"
    /\ LET r == run_validate(files)
       IN  /\ files' = r.files
           /\ ret' = r.events
           /\ arg' = IF files[EnrichedFile] = None THEN arg
                     ELSE [arg EXCEPT !.validate =
                              Remember(@, files[EnrichedFile], r.files[ValidatedFile])]
    /\ UNCHANGED <<args, pc, trace, exit_code>>

CallRunExportCsv ==
    /\ runs < MaxCalls
    /\ runs' = runs + 1
    /\ op' = "run_export_csv"
    /\ LET r == run_export_csv(files)
       IN  files' = r.files /\ ret' = r.events
    /\ UNCHANGED <<args, pc, trace, exit_code, arg>>

\* run_upload in either mode, with or without credentials; ret also holds
\* the exception that left the call and the elements handed to
\* upload_element
CallRunUpload ==
    /\ runs < MaxCalls
    /\ runs' = runs + 1
    /\ op' = "run_upload"
    /\ \E dry_run \in BOOLEAN, username \in {None, Some("user")},
          password \in {None, Some("secret")} :
       \E faults \in [1..UploadsOf(files) -> IF dry_run THEN {"none"} ELSE Faults] :
          LET r == run_upload(files, dry_run, username, password, faults)
          IN  /\ files' = r.files
              /\ ret' = [events |-> r.events, raised |-> r.raised,
                         handed |-> r.handed, dry_run |-> dry_run]
    /\ UNCHANGED <<args, pc, trace, exit_code, arg>>

NextStages ==
    \/ CallRunExtract
    \/ CallRunFilter
    \/ CallRunEnrich
    \/ CallRunValidate
    \/ CallRunExportCsv
    \/ CallRunUpload

SpecStages == InitStages /\ [][NextStages]_vars

(***************************************************************************)
(* C16                                                                     *)
(***************************************************************************)
\* a step that runs the stage reading snapshot pred and writing snapshot own:
\* pred is left as it was; what is written does not depend on the snapshot
\* that own held before; and when the stage last ran on the same
\* predecessor snapshot, what is written equals what that run wrote
C16_Rerun(stage, pred, own, last, written) ==
    (op' = stage /\ runs' = runs + 1 /\ files[pred] # None) =>
        /\ files'[pred] = files[pred]
        /\ files'[own] = written
        /\ (last # None /\ last[1].input = files[pred]) => files'[own] = last[1].output

\* C16: re-running the Filter stage, or the Validate stage, with its
\* predecessor snapshot unchanged is idempotent: the stage's snapshot after
\* the second run equals the one the first run wrote (it is overwritten in
\* full, never merged), and the predecessor snapshot is left unchanged by
\* every run.
C16_RerunIdempotent ==
    [][ /\ C16_Rerun("run_filter", RawFile, FilteredFile, arg.filter,
                     run_filter([files EXCEPT ![FilteredFile] = None]).files[FilteredFile])
        /\ C16_Rerun("run_validate", EnrichedFile, ValidatedFile, arg.validate,
                     run_validate([files EXCEPT ![ValidatedFile] = None]).files[ValidatedFile])
      ]_vars

\* the Filter stage and then the Validate stage were each run a second time
\* on an unchanged predecessor snapshot, with an element in their snapshots
C16_Witness ==
    /\ op = "run_validate"
    /\ arg.filter # None /\ arg.filter[1].again
    /\ arg.validate # None /\ arg.validate[1].again
    /\ files[FilteredFile] = arg.filter[1].output
    /\ files[ValidatedFile] = arg.validate[1].output
    /\ \E c \in DOMAIN files[FilteredFile][1] : files[FilteredFile][1][c] # << >>
    /\ \E c \in DOMAIN files[ValidatedFile][1] :
          files[ValidatedFile][1][c].valid_elements # << >>

(***************************************************************************)
(* C17                                                                     *)
(***************************************************************************)
\* the elements of a snapshot whose categories hold element lists
C17_ElementsOf(file) ==
    IF files[file] = None THEN {}
    ELSE UNION {Range(files[file][1][c]) : c \in DOMAIN files[file][1]}

\* the elements of the validated snapshot
C17_ValidatedElements ==
    IF files[ValidatedFile] = None THEN {}
    ELSE UNION {Range(files[ValidatedFile][1][c].valid_elements) :
                   c \in DOMAIN files[ValidatedFile][1]}

C17_HasFetched(e) == "elevation_fetched" \in DOMAIN e

C17_HasEle(e) == "tags" \in DOMAIN e /\ "ele" \in DOMAIN e.tags

C17_Snapshots ==
    C17_ElementsOf(RawFile) \cup C17_ElementsOf(FilteredFile)
        \cup C17_ElementsOf(EnrichedFile) \cup C17_ValidatedElements

\* C17 as stated: for every element of the raw, filtered, enriched and
\* validated snapshots, fetched_elevation is set if and only if tags.ele
\* is set.
C17_FetchedIffEle ==
    \A e \in C17_Snapshots : C17_HasFetched(e) <=> C17_HasEle(e)

\* C17, amended: in every snapshot an element that carries
\* fetched_elevation carries tags.ele and tags.ele:source; in the
\* filtered, enriched and validated snapshots an element carries tags.ele
\* only together with fetched_elevation, no element of the filtered
\* snapshot carries either, and every element of the validated snapshot
\* carries both.  (An element of the raw snapshot may carry a tags.ele that
\* the map already had.)
C17_FetchedImpliesEle ==
    /\ \A e \in C17_Snapshots :
          C17_HasFetched(e) => C17_HasEle(e) /\ "ele:source" \in DOMAIN e.tags
    /\ \A e \in C17_ElementsOf(FilteredFile) : ~C17_HasFetched(e) /\ ~C17_HasEle(e)
    /\ \A e \in C17_ElementsOf(EnrichedFile) : C17_HasFetched(e) <=> C17_HasEle(e)
    /\ \A e \in C17_ValidatedElements : C17_HasFetched(e) /\ C17_HasEle(e)

\* the raw snapshot holds an element the map already gave an ele tag, the
\* enriched snapshot an element whose lookup failed and one whose lookup
\* succeeded, and the validated snapshot an element
C17_Witness ==
    /\ \E e \in C17_ElementsOf(RawFile) : C17_HasEle(e) /\ ~C17_HasFetched(e)
    /\ \E e \in C17_ElementsOf(EnrichedFile) : ~C17_HasEle(e) /\ ~C17_HasFetched(e)
    /\ \E e \in C17_ElementsOf(EnrichedFile) : C17_HasEle(e) /\ C17_HasFetched(e)
    /\ C17_ValidatedElements # {}

C18_Written(e) ==
    /\ C17_HasFetched(e)
    /\ C17_HasEle(e)
    /\ "ele:source" \in DOMAIN e.tags

C19_Returned(calls, fault, i) == fault = "none" \/ i < Len(calls)

\* the store calls of one uploadOne on an element with this id: a
\* change-group that was opened receives one update, that of this element,
\* and a close call follows it
C19_OneGroup(calls, fault, id) ==
    \A i \in DOMAIN calls :
        (calls[i].store = "ChangesetCreate" /\ C19_Returned(calls, fault, i)) =>
            /\ i + 1 \in DOMAIN calls
            /\ calls[i + 1].store \in {"NodeUpdate", "WayUpdate"}
            /\ calls[i + 1].id = id
            /\ i + 2 \in DOMAIN calls
            /\ calls[i + 2].store = "ChangesetClose"

\* C19: in Live mode each change-group opened by uploadOne receives the
\* update of exactly that one element and is closed before uploadOne
\* returns, whether the update succeeds or a store call raises; so none is
\* left open when uploadMany moves to the next element.
C19_ChangeGroupClosed ==
    /\ (op = "upload_element" /\ ~arg.uploader.dry_run /\ ret.calls # << >>) =>
           C19_OneGroup(ret.calls, arg.fault, arg.element.id)
    /\ (op = "upload_elements" /\ ~arg.uploader.dry_run) =>
           \A i \in DOMAIN arg.elements :
               C14_One(i).calls # << >> =>
                   C19_OneGroup(C14_One(i).calls, arg.faults[i], arg.elements[i].id)

(***************************************************************************)
(* C20                                                                     *)
(***************************************************************************)
\* lookup calls and delays alternate in the log, a lookup call first
C20_Alternates(log) ==
    /\ Len(log) % 2 = 0
    /\ \A i \in DOMAIN log :
          log[i].call = (IF i % 2 = 1 THEN "get_elevation" ELSE "sleep")

\* C20: every lookup call of the Enricher is followed by exactly one
\* rate-limit delay before enrichOne returns, whether the lookup succeeded
\* or failed, so that in enrichMany a delay separates two consecutive
\* lookup calls; no delay is taken for an element for which no lookup is
\* issued.
C20_DelayAfterEveryLookup ==
    /\ op = "enrich_element" =>
          /\ C20_Alternates(ret.log)
          /\ Len(ret.log) = (IF C5_Resolvable(arg.element) THEN 2 ELSE 0)
    /\ op = "enrich_elements" =>
          /\ C20_Alternates(ret.log)
          /\ Len(ret.log) = 2 * Len(ret.enriched)
          /\ Len(ret.log) <= 2 * Cardinality(C8_ResolvableIndices(arg.elements))

\* a failed lookup, a delay, then the lookup for the next element, a delay
C20_Witness ==
    /\ op = "enrich_elements"
    /\ Len(arg.elements) = 2
    /\ C8_LookupFails(arg.api_type, arg.responses[1])
    /\ Len(ret.log) = 4
    /\ ret.log[2].call = "sleep"
    /\ ret.log[3].call = "get_elevation"

(***************************************************************************)
(* C21                                                                     *)
(***************************************************************************)
\* a step that runs the stage while the snapshot pred it reads is absent:
\* no file is created or changed, and the only event of the call is the
\* message that names the missing snapshot and the stage to run first
C21_Missing(stage, pred, flag) ==
    (op' = stage /\ runs' = runs + 1 /\ files[pred] = None) =>
        /\ files' = files
        /\ (IF stage = "run_upload" THEN ret'.events ELSE ret') = <<NotFound(pred, flag)>>
        /\ stage = "run_upload" => ret'.raised = None /\ ret'.handed = << >>

\* C21: a stage (Filter, Enrich, Validate, Export or Upload) invoked while
\* its predecessor's snapshot is absent reports the precondition error and
\* leaves every snapshot as it was: it neither creates nor overwrites its
\* own output, and it makes no lookup call and no store call.
C21_MissingPredecessor ==
    [][ /\ C21_Missing("run_filter", RawFile, "--extract")
        /\ C21_Missing("run_enrich", FilteredFile, "--filter")
        /\ C21_Missing("run_validate", EnrichedFile, "--enrich")
        /\ C21_Missing("run_export_csv", ValidatedFile, "--validate")
        /\ C21_Missing("run_upload", ValidatedFile, "--validate")
      ]_vars

\* a live upload was asked for in a directory that holds a raw, a filtered
\* and an enriched snapshot with elements, but no validated one
C21_Witness ==
    /\ op = "run_upload"
    /\ ~ret.dry_run
    /\ ret.events = <<NotFound(ValidatedFile, "--validate")>>
    /\ files[ValidatedFile] = None
    /\ files[CsvFile] = None
    /\ C17_ElementsOf(EnrichedFile) # {}

(***************************************************************************)
(* C22                                                                     *)
(***************************************************************************)
\* the valid_elements lists of the validated snapshot, category after
\* category, empty lists left out
C22_ValidInOrder ==
    IF files[ValidatedFile] = None THEN << >>
    ELSE LET data == valid_data_of(files[ValidatedFile][1])
             order == NonEmptyInOrder(data)
             F[k \in 0..Len(order)] ==
                 IF k = 0 THEN << >> ELSE F[k - 1] \o data[order[k]]
         IN  F[Len(order)]

C22_Uploadable(e) ==
    /\ C18_Written(e)
    /\ DefaultMinElevation <= e.elevation_fetched
    /\ e.elevation_fetched <= DefaultMaxElevation
    /\ validate_element(DefaultMinElevation, DefaultMaxElevation, e).valid

\* C22: after any sequence of stage runs, every element the Upload stage
\* hands to uploadOne comes from the valid_elements of the validated
\* snapshot and carries fetched_elevation within [0, 2600] together with
\* tags.ele and tags.ele:source; no element the Validate stage classifies
\* invalid is uploaded or previewed.
C22_OnlyValidUploaded ==
    op = "run_upload" =>
        /\ ret.handed \in {<< >>, C22_ValidInOrder}
        /\ \A i \in DOMAIN ret.handed :
              /\ ret.handed[i] \in C17_ValidatedElements
              /\ C22_Uploadable(ret.handed[i])

\* a dry run previewed an element while the enriched snapshot also held an
\* element without elevation data or with one out of range, which was not
\* handed over
C22_Witness ==
    /\ op = "run_upload"
    /\ ret.dry_run
    /\ ret.handed # << >>
    /\ \E e \in C17_ElementsOf(EnrichedFile) :
          /\ ~validate_element(DefaultMinElevation, DefaultMaxElevation, e).valid
          /\ e \notin Range(ret.handed)

====
